---------------------------- MODULE Spec2Model ----------------------------
(***************************************************************************)
(* Model of src/src/ser.rs: the serde Serializer that turns a Rust value   *)
(* into a Python object (pythonize / pythonize_custom), with its compound  *)
(* serializers (PythonCollectionSerializer, PythonTupleVariantSerializer,  *)
(* PythonMapSerializer, PythonDictSerializer,                              *)
(* PythonStructVariantSerializer).                                         *)
(*                                                                         *)
(* A Rust value is a record tagged by the serde data-model call it issues  *)
(* (field kind); a Python object is a record tagged by its Python type     *)
(* (field k).  A Python mapping is the sequence of its entries in          *)
(* insertion order, a list or tuple the sequence of its items.             *)
(***************************************************************************)
EXTENDS Integers, Sequences, FiniteSets, TLC

\* ------------------------------------------------------------ bounds

\* Most elements, entries or fields of an aggregate input value.
MaxLen == 2
\* Deepest nesting of the input values handed to pythonize.
MaxDepth == 2
\* Most element/key/value/field calls made on one compound serializer.
MaxCalls == 4

\* --------------------------------------------------- the type family

\* The bindings of PythonizeTypes: the default one and a caller-supplied one.
Adapters == {"PythonizeDefault", "Custom"}

\* P::Map, the concrete mapping class of a binding.
MapType(P) == IF P = "PythonizeDefault" THEN "PyDict" ELSE "CustomMap"

\* P::List, the concrete list class of a binding.
ListType(P) == IF P = "PythonizeDefault" THEN "PyList" ELSE "CustomList"

\* ---------------------------------------------------- Python objects

PyNone == [k |-> "None"]
PyBool(b) == [k |-> "Bool", b |-> b]
PyInt(n) == [k |-> "Int", n |-> n]
PyFloat(x) == [k |-> "Float", x |-> x]
PyStr(s) == [k |-> "Str", s |-> s]
PyBytes(s) == [k |-> "Bytes", s |-> s]

\* A mapping carries the allocation it comes from: set_item changes the
\* entries of the object in place and keeps it, a copy of the object is
\* another allocation.
\* PyDict::new(py): a fresh empty dict.
PyDictNew ==
    [k |-> "Mapping", ty |-> "PyDict", entries |-> <<>>, alloc |-> "new"]

\* P::Map::new(py): a fresh empty mapping of the binding's class.
MapNew(P) ==
    [k |-> "Mapping", ty |-> MapType(P), entries |-> <<>>, alloc |-> "new"]

\* P::List::new(py, items): a list of the binding's class, items in order.
ListNew(P, items) == [k |-> "List", ty |-> ListType(P), items |-> items]

\* PyTuple::new(py, items): a tuple, items in order.
PyTupleNew(items) == [k |-> "Tuple", items |-> items]

\* Python's hash(): lists and mappings are unhashable, a tuple is hashable
\* when all its items are.
RECURSIVE Hashable(_)
Hashable(o) ==
    CASE o.k \in {"List", "Mapping"} -> FALSE
      [] o.k = "Tuple" -> \A i \in 1..Len(o.items) : Hashable(o.items[i])
      [] OTHER -> TRUE

\* The number a Python bool, int or float compares as (True == 1 == 1.0).
NumericValue(o) ==
    CASE o.k = "Bool" -> IF o.b THEN 1 ELSE 0
      [] o.k = "Int" -> o.n
      [] o.k = "Float" -> o.x

IsNumeric(o) == o.k \in {"Bool", "Int", "Float"}

\* Python's == on two hashable keys, as a mapping uses it to find an entry.
RECURSIVE KeyEq(_, _)
KeyEq(a, b) ==
    CASE IsNumeric(a) /\ IsNumeric(b) -> NumericValue(a) = NumericValue(b)
      [] IsNumeric(a) \/ IsNumeric(b) -> FALSE
      [] a.k # b.k -> FALSE
      [] a.k = "None" -> TRUE
      [] a.k \in {"Str", "Bytes"} -> a.s = b.s
      [] a.k = "Tuple" ->
            /\ Len(a.items) = Len(b.items)
            /\ \A i \in 1..Len(a.items) : KeyEq(a.items[i], b.items[i])
      [] OTHER -> FALSE

\* The outcome of a fallible call: Result<T, PythonizeError>.
Ok(o) == [ok |-> TRUE, obj |-> o]
Err(e) == [ok |-> FALSE, err |-> e]

\* The index of the entry of m stored under a key equal to key, 0 if none.
FindKey(m, key) ==
    LET hits == {i \in 1..Len(m.entries) : KeyEq(m.entries[i].key, key)}
    IN IF hits = {} THEN 0 ELSE CHOOSE i \in hits : TRUE

\* Mutant: a key written again moves to the end of the mapping.
SetItemMovesToEnd(m, key, val) ==
    IF ~Hashable(key) THEN Err("TypeError")
    ELSE Ok([m EXCEPT !.entries =
                Append(SelectSeq(@, LAMBDA e : ~KeyEq(e.key, key)),
                       [key |-> key, val |-> val])])

\* Mutant: an entry under an equal key keeps the value it has.
SetItemFirstWins(m, key, val) ==
    IF ~Hashable(key) THEN Err("TypeError")
    ELSE IF FindKey(m, key) = 0
         THEN Ok([m EXCEPT !.entries = Append(@, [key |-> key, val |-> val])])
         ELSE Ok(m)

\* mapping.set_item(key, val): a TypeError for an unhashable key; an entry
\* under an equal key keeps its place and its stored key and takes the new
\* value; a new key is appended.
SetItem(m, key, val) ==
    IF ~Hashable(key) THEN Err("TypeError")
    ELSE LET i == FindKey(m, key)
         IN IF i = 0
            THEN Ok([m EXCEPT !.entries =
                        Append(@, [key |-> key, val |-> val])])
            ELSE Ok([m EXCEPT !.entries[i].val = val])

\* ------------------------------------------------- compound serializers

\* Option<PyObject>: None is <<>>, Some(o) is <<o>>.
NoKey == <<>>

\* The fields of the five serializer structs in one record: kind names the
\* struct, via the trait the caller drives it through, P the binding; a
\* struct without a field holds its empty value.
Serializer(kind, via, P, variant, dict) ==
    [kind |-> kind, via |-> via, P |-> P, variant |-> variant,
     items |-> <<>>, dict |-> dict, key |-> NoKey]

\* The outcome of an element/key/value/field call, with the serializer after it.
Done(s) == [tag |-> "Ok", err |-> "", ser |-> s]
Failed(e, s) == [tag |-> "Err", err |-> e, ser |-> s]
Panicked(s) == [tag |-> "Panic", err |-> "", ser |-> s]

\* value.serialize(Pythonizer { .. }): the one dispatch call of the value.
RECURSIVE Serialize(_, _)

pythonize_custom(P, value) == Serialize(P, value)

pythonize(value) == pythonize_custom("PythonizeDefault", value)

serialize_bool(v) == Ok(PyBool(v))

\* serialize_i8 .. serialize_u64: every width becomes a Python int.
serialize_int(v) == Ok(PyInt(v))

\* serialize_f32, serialize_f64.
serialize_float(v) == Ok(PyFloat(v))

serialize_str(v) == Ok(PyStr(v))

\* A char is its one-character string.
serialize_char(v) == serialize_str(v)

serialize_bytes(v) == Ok(PyBytes(v))

serialize_none == Ok(PyNone)

\* Mutant: Some(v) rendered as a one-entry mapping around v.
serialize_some_boxed(P, value) ==
    IF Serialize(P, value).ok
    THEN Ok([PyDictNew EXCEPT !.entries =
                <<[key |-> PyStr("Some"), val |-> Serialize(P, value).obj]>>])
    ELSE Serialize(P, value)

serialize_some(P, value) == Serialize(P, value)

serialize_unit == serialize_none

\* Mutant: a unit struct rendered as a struct without fields.
serialize_unit_struct_as_empty_map == Ok(PyDictNew)

serialize_unit_struct == serialize_none

serialize_unit_variant(variant) == serialize_str(variant)

serialize_newtype_struct(P, value) == Serialize(P, value)

\* d.set_item(key, r?)?: the error of r, or of setting the item.
SetEntry(d, key, r) == IF r.ok THEN SetItem(d, key, r.obj) ELSE r

\* Mutant: the variant name is dropped, the inner value returned bare.
serialize_newtype_variant_unwrapped(P, variant, value) == Serialize(P, value)

serialize_newtype_variant(P, variant, value) ==
    SetEntry(PyDictNew, PyStr(variant), Serialize(P, value))

serialize_seq(P) == Serializer("Collection", "Seq", P, "", PyNone)

serialize_tuple(P) == Serializer("Collection", "Tuple", P, "", PyNone)

serialize_tuple_struct(P) ==
    [serialize_tuple(P) EXCEPT !.via = "TupleStruct"]

serialize_tuple_variant(P, variant) ==
    [serialize_tuple(P) EXCEPT !.kind = "TupleVariant",
                               !.via = "TupleVariant",
                               !.variant = variant]

serialize_map(P) == Serializer("Map", "Map", P, "", MapNew(P))

serialize_struct(P) == Serializer("Dict", "Struct", P, "", MapNew(P))

serialize_struct_variant(P, variant) ==
    Serializer("StructVariant", "StructVariant", P, variant, MapNew(P))

\* Mutant: an element that fails to convert is collected as None.
PushOrNone(s, r) ==
    IF r.ok THEN Done([s EXCEPT !.items = Append(@, r.obj)])
    ELSE Done([s EXCEPT !.items = Append(@, PyNone)])

\* Mutant: the element is put in front of the ones already collected.
PushFront(s, r) ==
    IF r.ok THEN Done([s EXCEPT !.items = <<r.obj>> \o @])
    ELSE Failed(r.err, s)

\* self.items.push(r?): items are untouched when r is an error.
Push(s, r) ==
    IF r.ok THEN Done([s EXCEPT !.items = Append(@, r.obj)])
    ELSE Failed(r.err, s)

SeqSerializeElement(s, value) == Push(s, pythonize_custom(s.P, value))

SeqEnd(s) == Ok(ListNew(s.P, s.items))

TupleSerializeElement(s, value) == SeqSerializeElement(s, value)

\* Mutant: a tuple ends as the binding's list, like a sequence.
TupleEndAsList(s) == Ok(ListNew(s.P, s.items))

TupleEnd(s) == Ok(PyTupleNew(s.items))

TupleStructSerializeField(s, value) == SeqSerializeElement(s, value)

TupleStructEnd(s) == TupleEnd(s)

\* The wrapper's inner collector is the record's items.
TupleVariantSerializeField(s, value) == SeqSerializeElement(s, value)

TupleVariantEnd(s) == SetEntry(PyDictNew, PyStr(s.variant), TupleEnd(s))

\* Mutant: a key is refused while another one is pending.
StoreKeyIfEmpty(s, r) ==
    IF s.key # NoKey THEN Failed("ProtocolViolation", s)
    ELSE IF r.ok THEN Done([s EXCEPT !.key = <<r.obj>>])
    ELSE Failed(r.err, s)

\* self.key = Some(r?): the slot is assigned only when the key converted.
StoreKey(s, r) ==
    IF r.ok THEN Done([s EXCEPT !.key = <<r.obj>>]) ELSE Failed(r.err, s)

\* SerializeMap::serialize_key: what the slot held is not looked at.
MapSerializeKey(s, key) == StoreKey(s, pythonize_custom(s.P, key))

\* The mapping after set_item returned w: unchanged when w is an error.
Stored(s, w) ==
    IF w.ok THEN Done([s EXCEPT !.dict = w.obj]) ELSE Failed(w.err, s)

\* Mutant: a missing key is reported as an error instead of a panic.
MapSerializeValueChecked(s, value) ==
    IF s.key = NoKey THEN Failed("ProtocolViolation", s)
    ELSE Stored([s EXCEPT !.key = NoKey],
                SetEntry(s.dict, s.key[1], pythonize_custom(s.P, value)))

\* Mutant: the pending key is read and left in the slot.
MapSerializeValueKeepsKey(s, value) ==
    IF s.key = NoKey THEN Panicked(s)
    ELSE Stored(s, SetEntry(s.dict, s.key[1], pythonize_custom(s.P, value)))

\* SerializeMap::serialize_value: the arguments of set_item are evaluated
\* in order: key.take().expect(..) empties the slot and panics if it was
\* empty, then the value is converted, then the item is set.
MapSerializeValue(s, value) ==
    IF s.key = NoKey THEN Panicked(s)
    ELSE Stored([s EXCEPT !.key = NoKey],
                SetEntry(s.dict, s.key[1], pythonize_custom(s.P, value)))

\* Mutant: end returns a copy of the mapping.
MapEndCopy(s) == Ok([s.dict EXCEPT !.alloc = "copy"])

MapEnd(s) == Ok(s.dict)

StructSerializeField(s, name, value) ==
    Stored(s, SetEntry(s.dict, PyStr(name), pythonize_custom(s.P, value)))

StructEnd(s) == Ok(s.dict)

\* The wrapper's inner.dict is the record's dict.
StructVariantSerializeField(s, name, value) ==
    Stored(s, SetEntry(s.dict, PyStr(name), pythonize_custom(s.P, value)))

StructVariantEnd(s) == SetItem(PyDictNew, PyStr(s.variant), s.dict)

\* The element/field call of the trait the serializer is driven through.
ElementCall(s, value) ==
    CASE s.via = "Seq" -> SeqSerializeElement(s, value)
      [] s.via = "Tuple" -> TupleSerializeElement(s, value)
      [] s.via = "TupleStruct" -> TupleStructSerializeField(s, value)
      [] s.via = "TupleVariant" -> TupleVariantSerializeField(s, value)

FieldCall(s, name, value) ==
    CASE s.via = "Struct" -> StructSerializeField(s, name, value)
      [] s.via = "StructVariant" -> StructVariantSerializeField(s, name, value)

\* The end of the trait the serializer is driven through.
EndCall(s) ==
    CASE s.via = "Seq" -> SeqEnd(s)
      [] s.via = "Tuple" -> TupleEnd(s)
      [] s.via = "TupleStruct" -> TupleStructEnd(s)
      [] s.via = "TupleVariant" -> TupleVariantEnd(s)
      [] s.via = "Map" -> MapEnd(s)
      [] s.via = "Struct" -> StructEnd(s)
      [] s.via = "StructVariant" -> StructVariantEnd(s)

\* ------------------------------------------- the value's Serialize impl

\* A Serialize impl of an aggregate makes its calls in order, each followed
\* by `?`: the first call that fails ends it.
RECURSIVE FeedElements(_, _)
ThenElements(r, elems) ==
    IF r.tag = "Ok" THEN FeedElements(r.ser, elems) ELSE r

FeedElements(s, elems) ==
    IF elems = <<>> THEN Done(s)
    ELSE ThenElements(ElementCall(s, Head(elems)), Tail(elems))

\* serialize_entry: serialize_key(k)? then serialize_value(v)?.
RECURSIVE FeedEntries(_, _)
ThenEntries(r, pairs) ==
    IF r.tag = "Ok" THEN FeedEntries(r.ser, pairs) ELSE r

ThenValue(r, value, pairs) ==
    IF r.tag = "Ok" THEN ThenEntries(MapSerializeValue(r.ser, value), pairs)
    ELSE r

FeedEntries(s, pairs) ==
    IF pairs = <<>> THEN Done(s)
    ELSE ThenValue(MapSerializeKey(s, Head(pairs).key),
                   Head(pairs).value, Tail(pairs))

RECURSIVE FeedFields(_, _)
ThenFields(r, fields) ==
    IF r.tag = "Ok" THEN FeedFields(r.ser, fields) ELSE r

FeedFields(s, fields) ==
    IF fields = <<>> THEN Done(s)
    ELSE ThenFields(FieldCall(s, Head(fields).name, Head(fields).value),
                    Tail(fields))

\* The calls fed, then end; the error of a failed call is the result.
Finish(r) == IF r.tag = "Ok" THEN EndCall(r.ser) ELSE Err(r.err)

Serialize(P, value) ==
    CASE value.kind = "Bool" -> serialize_bool(value.b)
      [] value.kind = "Int" -> serialize_int(value.n)
      [] value.kind = "Float" -> serialize_float(value.x)
      [] value.kind = "Char" -> serialize_char(value.c)
      [] value.kind = "Str" -> serialize_str(value.s)
      [] value.kind = "Bytes" -> serialize_bytes(value.s)
      [] value.kind = "None" -> serialize_none
      [] value.kind = "Some" -> serialize_some(P, value.value)
      [] value.kind = "Unit" -> serialize_unit
      [] value.kind = "UnitStruct" -> serialize_unit_struct
      [] value.kind = "UnitVariant" -> serialize_unit_variant(value.variant)
      [] value.kind = "NewtypeStruct" ->
            serialize_newtype_struct(P, value.value)
      [] value.kind = "NewtypeVariant" ->
            serialize_newtype_variant(P, value.variant, value.value)
      [] value.kind = "Seq" ->
            Finish(FeedElements(serialize_seq(P), value.elems))
      [] value.kind = "Tuple" ->
            Finish(FeedElements(serialize_tuple(P), value.elems))
      [] value.kind = "TupleStruct" ->
            Finish(FeedElements(serialize_tuple_struct(P), value.elems))
      [] value.kind = "TupleVariant" ->
            Finish(FeedElements(serialize_tuple_variant(P, value.variant),
                                value.elems))
      [] value.kind = "Map" ->
            Finish(FeedEntries(serialize_map(P), value.pairs))
      [] value.kind = "Struct" ->
            Finish(FeedFields(serialize_struct(P), value.fields))
      [] value.kind = "StructVariant" ->
            Finish(FeedFields(serialize_struct_variant(P, value.variant),
                              value.fields))
      \* A Serialize impl that reports its own error (ser::Error::custom).
      [] value.kind = "Failing" -> Err("Custom")

\* ------------------------------------------------------- input values

VBool(b) == [kind |-> "Bool", b |-> b]
VInt(n) == [kind |-> "Int", n |-> n]
VFloat(x) == [kind |-> "Float", x |-> x]
VChar(c) == [kind |-> "Char", c |-> c]
VStr(s) == [kind |-> "Str", s |-> s]
VBytes(s) == [kind |-> "Bytes", s |-> s]
VNone == [kind |-> "None"]
VUnit == [kind |-> "Unit"]
VUnitStruct == [kind |-> "UnitStruct"]
VFailing == [kind |-> "Failing"]
VUnitVariant(variant) == [kind |-> "UnitVariant", variant |-> variant]
VWrap(kind, v) == [kind |-> kind, value |-> v]
VNewtypeVariant(variant, v) ==
    [kind |-> "NewtypeVariant", variant |-> variant, value |-> v]
VElems(kind, es) == [kind |-> kind, elems |-> es]
VTupleVariant(variant, es) ==
    [kind |-> "TupleVariant", variant |-> variant, elems |-> es]
VMap(ps) == [kind |-> "Map", pairs |-> ps]
VStruct(fs) == [kind |-> "Struct", fields |-> fs]
VStructVariant(variant, fs) ==
    [kind |-> "StructVariant", variant |-> variant, fields |-> fs]

\* The sequences over S of length at most n.
SeqsUpTo(S, n) == UNION {[1..m -> S] : m \in 0..n}

\* One value of every leaf kind.
Atoms ==
    {VBool(TRUE), VInt(1), VFloat(1), VChar("c"), VStr("a"), VBytes("a"),
     VNone, VUnit, VUnitStruct, VUnitVariant("A"), VFailing}

FieldNames == {"f", "g"}

\* The aggregates of at most MaxLen leaves.
Wide ==
    LET elems == SeqsUpTo({VInt(1), VFailing}, MaxLen)
        pairs == SeqsUpTo([key : {VInt(1), VBool(TRUE)},
                           value : {VInt(1), VStr("a")}], MaxLen)
        fields == SeqsUpTo([name : FieldNames,
                            value : {VInt(1), VStr("a")}], MaxLen)
    IN {VElems(kind, es) : kind \in {"Seq", "Tuple", "TupleStruct"},
                           es \in elems}
       \cup {VTupleVariant("A", es) : es \in elems}
       \cup {VMap(ps) : ps \in pairs}
       \cup {VStruct(fs) : fs \in fields}
       \cup {VStructVariant("A", fs) : fs \in fields}

\* Every kind that holds a value, around each value of S.
Narrow(S) ==
    {VWrap(kind, v) : kind \in {"Some", "NewtypeStruct"}, v \in S}
    \cup {VNewtypeVariant("A", v) : v \in S}
    \cup {VElems(kind, <<v>>) : kind \in {"Seq", "Tuple"}, v \in S}
    \cup {VTupleVariant("A", <<v>>) : v \in S}
    \cup {VMap(<<[key |-> VInt(1), value |-> v]>>) : v \in S}
    \cup {VMap(<<[key |-> v, value |-> VInt(1)]>>) : v \in S}
    \cup {VStruct(<<[name |-> "f", value |-> v]>>) : v \in S}
    \cup {VStructVariant("A", <<[name |-> "f", value |-> v]>>) : v \in S}

\* The leaves, wrapped at most d times.
RECURSIVE ValuesOfDepth(_)
ValuesOfDepth(d) ==
    IF d = 0 THEN Atoms
    ELSE Atoms \cup Narrow(ValuesOfDepth(d - 1))

\* The values handed to pythonize: the leaves wrapped at most MaxDepth
\* times, the aggregates of leaves, and those aggregates wrapped once.
Values == ValuesOfDepth(MaxDepth) \cup Wide \cup Narrow(Wide)

\* The arguments of the calls made on an open compound serializer.
ElementArgs == {VInt(1), VStr("a"), VFailing, VElems("Seq", <<VInt(1)>>)}
KeyArgs == {VInt(1), VBool(TRUE), VStr("a"), VElems("Seq", <<>>), VFailing}
ValueArgs == {VInt(1), VStr("a"), VFailing}
Variants == {"A"}

\* -------------------------------------------------------- the program

VARIABLES
    input,    \* the call pythonize_custom::<P, _>(py, value): <<>> or
              \* <<[P |-> P, value |-> value]>>
    ser,      \* the open compound serializer: <<>> or <<serializer>>
    calls,    \* the calls made on ser so far, each with its outcome
    ret       \* what the last call returned

vars == <<input, ser, calls, ret>>

Init ==
    /\ input = <<>>
    /\ ser = <<>>
    /\ calls = <<>>
    /\ ret = [tag |-> "Start"]

\* What a call returned: Ok(()), Ok(object), Err(error), or a panic.
RetUnit == [tag |-> "Unit"]
RetOf(r) == IF r.ok THEN [tag |-> "Obj", obj |-> r.obj]
            ELSE [tag |-> "Err", err |-> r.err]
RetOfCall(r) ==
    CASE r.tag = "Ok" -> RetUnit
      [] r.tag = "Err" -> [tag |-> "Err", err |-> r.err]
      [] r.tag = "Panic" -> [tag |-> "Panic"]

\* A serializer can be called while no call on it has failed and end has
\* not consumed it.
Open == ser # <<>> /\ ret.tag \in {"Begun", "Unit"}
CanCall == Open /\ Len(calls) < MaxCalls

Call(op, name, arg, r) ==
    [op |-> op, name |-> name, arg |-> arg, tag |-> r.tag]

\* pythonize_custom::<P, _>(py, value) on a whole value.
Pythonize(P, value) ==
    /\ ret.tag = "Start"
    /\ input' = <<[P |-> P, value |-> value]>>
    /\ ret' = RetOf(pythonize_custom(P, value))
    /\ UNCHANGED <<ser, calls>>

\* One of the serialize_* calls that hand back a compound serializer.
Begin(s) ==
    /\ ret.tag = "Start"
    /\ ser' = <<s>>
    /\ ret' = [tag |-> "Begun"]
    /\ UNCHANGED <<input, calls>>

BeginSeq(P) == Begin(serialize_seq(P))
BeginTuple(P) == Begin(serialize_tuple(P))
BeginTupleStruct(P) == Begin(serialize_tuple_struct(P))
BeginTupleVariant(P, variant) == Begin(serialize_tuple_variant(P, variant))
BeginMap(P) == Begin(serialize_map(P))
BeginStruct(P) == Begin(serialize_struct(P))
BeginStructVariant(P, variant) == Begin(serialize_struct_variant(P, variant))

Returned(op, name, arg, r) ==
    /\ ser' = <<r.ser>>
    /\ calls' = Append(calls, Call(op, name, arg, r))
    /\ ret' = RetOfCall(r)
    /\ UNCHANGED input

\* serialize_element / serialize_field(value) on a collector or on the
\* tuple-variant wrapper.
Element(value) ==
    /\ CanCall
    /\ ser[1].kind \in {"Collection", "TupleVariant"}
    /\ Returned("element", "", value, ElementCall(ser[1], value))

Key(key) ==
    /\ CanCall
    /\ ser[1].kind = "Map"
    /\ Returned("key", "", key, MapSerializeKey(ser[1], key))

Value(value) ==
    /\ CanCall
    /\ ser[1].kind = "Map"
    /\ Returned("value", "", value, MapSerializeValue(ser[1], value))

\* serialize_field(name, value) on a struct serializer or on the
\* struct-variant wrapper.
Field(name, value) ==
    /\ CanCall
    /\ ser[1].kind \in {"Dict", "StructVariant"}
    /\ Returned("field", name, value, FieldCall(ser[1], name, value))

\* end consumes the serializer.
End ==
    /\ Open
    /\ ret' = RetOf(EndCall(ser[1]))
    /\ UNCHANGED <<input, ser, calls>>

\* Nothing has been called yet.
Idle == ret.tag = "Start"

Next ==
    \/ Idle /\ \E P \in Adapters, value \in Values : Pythonize(P, value)
    \/ \E P \in Adapters : BeginSeq(P)
    \/ \E P \in Adapters : BeginTuple(P)
    \/ \E P \in Adapters : BeginTupleStruct(P)
    \/ \E P \in Adapters, variant \in Variants : BeginTupleVariant(P, variant)
    \/ \E P \in Adapters : BeginMap(P)
    \/ \E P \in Adapters : BeginStruct(P)
    \/ \E P \in Adapters, variant \in Variants : BeginStructVariant(P, variant)
    \/ \E value \in ElementArgs : Element(value)
    \/ \E key \in KeyArgs : Key(key)
    \/ \E value \in ValueArgs : Value(value)
    \/ \E name \in FieldNames, value \in ValueArgs : Field(name, value)
    \/ End

Spec == Init /\ [][Next]_vars

\* ---------------------------------------------------------- properties

\* pythonize_custom has returned for a whole value.
Pythonized == input # <<>>
Root == input[1].value
RootP == input[1].P

\* end has returned an object for the compound serializer.
Ended == ser # <<>> /\ ret.tag = "Obj"

\* The object a value converts to, when it converts.
Converted(P, value) == pythonize_custom(P, value).obj

\* m is a mapping of exactly one entry, key the string name, value val.
OneEntry(m, name, val) ==
    /\ m.k = "Mapping"
    /\ m.entries = <<[key |-> PyStr(name), val |-> val]>>

\* C1: a NewtypeVariant, TupleVariant or StructVariant that converts gives a
\* mapping of exactly one entry, from the variant name as a string to the
\* converted inner value (the inner value, the tuple of the elements, the
\* struct of the fields); a UnitVariant gives the bare string of its name.
\* The same holds of end on the two variant wrappers.
C1_VariantShape ==
    /\ (Pythonized /\ ret.tag = "Obj") =>
          CASE Root.kind = "UnitVariant" -> ret.obj = PyStr(Root.variant)
            [] Root.kind = "NewtypeVariant" ->
                  OneEntry(ret.obj, Root.variant,
                           Converted(RootP, Root.value))
            [] Root.kind = "TupleVariant" ->
                  OneEntry(ret.obj, Root.variant,
                           Converted(RootP, VElems("Tuple", Root.elems)))
            [] Root.kind = "StructVariant" ->
                  OneEntry(ret.obj, Root.variant,
                           Converted(RootP, VStruct(Root.fields)))
            [] OTHER -> TRUE
    /\ (Ended /\ ser[1].kind = "TupleVariant") =>
          OneEntry(ret.obj, ser[1].variant, PyTupleNew(ser[1].items))
    /\ (Ended /\ ser[1].kind = "StructVariant") =>
          OneEntry(ret.obj, ser[1].variant, ser[1].dict)

\* A newtype variant around a two-field struct variant has converted.
C1_Witness ==
    /\ Pythonized
    /\ ret.tag = "Obj"
    /\ Root.kind = "NewtypeVariant"
    /\ Root.value.kind = "StructVariant"
    /\ Len(Root.value.fields) = 2

\* v converts to None whatever it holds: a unit, a unit struct, Option::None,
\* or Some or a newtype struct around such a value.
RECURSIVE NullShaped(_)
NullShaped(v) ==
    \/ v.kind \in {"Unit", "UnitStruct", "None"}
    \/ v.kind \in {"Some", "NewtypeStruct"} /\ NullShaped(v.value)

\* C2 as stated: None is the result of exactly the kinds Unit, UnitStruct
\* and Option::None.
C2_NullOnlyForUnitKinds ==
    Pythonized =>
        /\ Root.kind \in {"Unit", "UnitStruct", "None"} =>
              ret = [tag |-> "Obj", obj |-> PyNone]
        /\ (ret.tag = "Obj" /\ ret.obj = PyNone) =>
              Root.kind \in {"Unit", "UnitStruct", "None"}

\* C2 amended: Unit, UnitStruct and Option::None convert to None;
\* Some(v) and NewtypeStruct(v) convert to None exactly when v does; a value
\* of any other kind never converts to None.
C2_NullExactlyForNullShaped ==
    Pythonized =>
        /\ NullShaped(Root) => ret = [tag |-> "Obj", obj |-> PyNone]
        /\ (ret.tag = "Obj" /\ ret.obj = PyNone) => NullShaped(Root)

\* Some(Option::None) has converted, to None.
C2_Witness ==
    /\ Pythonized
    /\ Root.kind = "Some"
    /\ Root.value.kind = "None"
    /\ ret = [tag |-> "Obj", obj |-> PyNone]

\* items are the conversions of values, one for one and in order.
ConvertedInOrder(items, P, values) ==
    /\ Len(items) = Len(values)
    /\ \A i \in 1..Len(values) : items[i] = Converted(P, values[i])

\* The arguments of the calls made on the serializer, in call order.
CallArgs == [i \in 1..Len(calls) |-> calls[i].arg]

\* C3: end on a sequence serializer, after n element calls that succeeded,
\* returns a list of length n whose i-th item is the conversion of the i-th
\* element fed; so does the conversion of a whole sequence value.
C3_SeqKeepsCallOrder ==
    /\ (Ended /\ ser[1].via = "Seq") =>
          /\ ret.obj.k = "List"
          /\ ConvertedInOrder(ret.obj.items, ser[1].P, CallArgs)
    /\ (Pythonized /\ Root.kind = "Seq" /\ ret.tag = "Obj") =>
          /\ ret.obj.k = "List"
          /\ ConvertedInOrder(ret.obj.items, RootP, Root.elems)

\* A sequence serializer has ended after three elements, the first two
\* different.
C3_Witness ==
    /\ Ended
    /\ ser[1].via = "Seq"
    /\ Len(calls) = 3
    /\ calls[1].arg # calls[2].arg

\* The entries of a mapping written with keys[j] -> vals[j] for j = 1, 2, ..
\* in this order: every key written has an entry, holding the value of the
\* last pair written under an equal key; every entry is under a key written;
\* no two entries are under equal keys.
LastWriteWins(entries, keys, vals) ==
    LET n == Len(keys)
        last(j) == CHOOSE l \in j..n :
                      /\ KeyEq(keys[l], keys[j])
                      /\ \A l2 \in (l + 1)..n : ~KeyEq(keys[l2], keys[j])
    IN /\ \A j \in 1..n :
             \E i \in 1..Len(entries) :
                /\ KeyEq(entries[i].key, keys[j])
                /\ entries[i].val = vals[last(j)]
       /\ \A i \in 1..Len(entries) :
             \E j \in 1..n : KeyEq(entries[i].key, keys[j])
       /\ \A i1, i2 \in 1..Len(entries) :
             KeyEq(entries[i1].key, entries[i2].key) => i1 = i2

\* The calls on the map serializer are key, value, key, value, ..
Alternating ==
    /\ Len(calls) % 2 = 0
    /\ \A i \in 1..Len(calls) :
          calls[i].op = IF i % 2 = 1 THEN "key" ELSE "value"

\* The converted keys and values of the pairs fed by alternating calls.
PairKeys ==
    [j \in 1..(Len(calls) \div 2) |-> Converted(ser[1].P, calls[2 * j - 1].arg)]
PairVals ==
    [j \in 1..(Len(calls) \div 2) |-> Converted(ser[1].P, calls[2 * j].arg)]

\* C4: end on a map serializer, after strictly alternating key and value
\* calls that succeeded, returns a mapping with exactly one entry per
\* distinct converted key (distinct as the mapping compares keys), each
\* holding the converted value of the last pair written for that key; so
\* does the conversion of a whole map value.
C4_MapLastWriteWins ==
    /\ (Ended /\ ser[1].kind = "Map" /\ Alternating) =>
          /\ ret.obj.k = "Mapping"
          /\ LastWriteWins(ret.obj.entries, PairKeys, PairVals)
    /\ (Pythonized /\ Root.kind = "Map" /\ ret.tag = "Obj") =>
          /\ ret.obj.k = "Mapping"
          /\ LastWriteWins(ret.obj.entries,
                [j \in 1..Len(Root.pairs) |->
                    Converted(RootP, Root.pairs[j].key)],
                [j \in 1..Len(Root.pairs) |->
                    Converted(RootP, Root.pairs[j].value)])

\* A map serializer has ended after the pairs 1 -> v and True -> w with v
\* and w different: one entry, under the first key, holding w.
C4_Witness ==
    /\ Ended
    /\ ser[1].kind = "Map"
    /\ Alternating
    /\ Len(calls) = 4
    /\ calls[1].arg = VInt(1)
    /\ calls[3].arg = VBool(TRUE)
    /\ calls[2].arg # calls[4].arg
    /\ Len(ret.obj.entries) = 1

\* The last of the first n calls that was a serialize_value, 0 if none.
LastValueCall(n) ==
    LET vs == {i \in 1..n : calls[i].op = "value"}
    IN IF vs = {} THEN 0 ELSE CHOOSE i \in vs : \A i2 \in vs : i2 <= i

\* The serialize_key calls among the first n that succeeded and that no
\* serialize_value has followed.
PendingKeyCalls(n) ==
    {i \in (LastValueCall(n) + 1)..n :
        calls[i].op = "key" /\ calls[i].tag = "Ok"}

\* The pending-key slot after the first n calls: the key of the last such
\* call, if any.
PendingKey(n) ==
    LET ks == PendingKeyCalls(n)
    IN IF ks = {} THEN NoKey
       ELSE <<Converted(ser[1].P,
                        calls[CHOOSE i \in ks : \A i2 \in ks : i2 <= i].arg)>>

\* C5 as stated: serialize_key is accepted only when the pending-key slot
\* is empty.
C5_KeyAcceptedOnlyIntoEmptySlot ==
    (ser # <<>> /\ ser[1].kind = "Map") =>
        \A i \in 1..Len(calls) :
            (calls[i].op = "key" /\ calls[i].tag = "Ok") =>
                PendingKey(i - 1) = NoKey

\* C5 amended: serialize_key does not look at the pending-key slot: it
\* succeeds exactly when its key converts, and then the slot holds that key,
\* replacing a key that was pending; so the slot always holds the key of
\* the last serialize_key that succeeded since the last serialize_value.
C5_KeyReplacesPendingKey ==
    (ser # <<>> /\ ser[1].kind = "Map") =>
        /\ \A i \in 1..Len(calls) :
              calls[i].op = "key" =>
                 (calls[i].tag = "Ok" <=>
                     pythonize_custom(ser[1].P, calls[i].arg).ok)
        /\ ser[1].key = PendingKey(Len(calls))

\* Two serialize_key calls in a row have succeeded with different keys; the
\* slot holds the second.
C5_Witness ==
    /\ ser # <<>>
    /\ ser[1].kind = "Map"
    /\ Len(calls) = 2
    /\ calls[1].op = "key" /\ calls[1].tag = "Ok"
    /\ calls[2].op = "key" /\ calls[2].tag = "Ok"
    /\ calls[1].arg # calls[2].arg
    /\ ser[1].key = <<Converted(ser[1].P, calls[2].arg)>>

\* A step that is a serialize_value call on a map serializer whose
\* pending-key slot is empty.
ValueWithoutKey ==
    /\ ser # <<>>
    /\ ser[1].kind = "Map"
    /\ ser[1].key = NoKey
    /\ Len(calls') = Len(calls) + 1
    /\ calls'[Len(calls')].op = "value"

\* C6 as stated: serialize_value with an empty pending-key slot returns a
\* ProtocolViolation error and adds no entry.
C6_ValueWithoutKeyIsAnError ==
    [][ValueWithoutKey =>
          /\ ret' = [tag |-> "Err", err |-> "ProtocolViolation"]
          /\ ser'[1].dict = ser[1].dict]_vars

\* C6 amended: serialize_value with an empty pending-key slot (at the start,
\* or directly after another serialize_value) panics: it returns nothing to
\* the caller, converts nothing and adds no entry to the mapping.
C6_ValueWithoutKeyPanics ==
    [][ValueWithoutKey =>
          /\ ret' = [tag |-> "Panic"]
          /\ ser' = ser]_vars

\* serialize_value has panicked directly after a serialize_value that
\* succeeded.
C6_Witness ==
    /\ ser # <<>>
    /\ ser[1].kind = "Map"
    /\ Len(calls) = 3
    /\ calls[2].op = "value" /\ calls[2].tag = "Ok"
    /\ calls[3].op = "value"
    /\ ret.tag = "Panic"

\* The conversion of v is a list or a mapping, or a tuple holding one:
\* not a key a mapping takes.
RECURSIVE UnhashableValue(_)
UnhashableValue(v) ==
    \/ v.kind \in {"Seq", "Map", "Struct", "NewtypeVariant", "TupleVariant",
                   "StructVariant"}
    \/ v.kind \in {"Some", "NewtypeStruct"} /\ UnhashableValue(v.value)
    \/ v.kind \in {"Tuple", "TupleStruct"}
          /\ \E i \in 1..Len(v.elems) : UnhashableValue(v.elems[i])

\* Somewhere in the tree of v a conversion or a set_item fails: a value
\* whose Serialize impl reports an error, or a map entry whose key the
\* mapping does not take.
RECURSIVE Poisoned(_)
Poisoned(v) ==
    \/ v.kind = "Failing"
    \/ v.kind \in {"Some", "NewtypeStruct", "NewtypeVariant"}
          /\ Poisoned(v.value)
    \/ v.kind \in {"Seq", "Tuple", "TupleStruct", "TupleVariant"}
          /\ \E i \in 1..Len(v.elems) : Poisoned(v.elems[i])
    \/ v.kind = "Map"
          /\ \E i \in 1..Len(v.pairs) :
                \/ Poisoned(v.pairs[i].key)
                \/ Poisoned(v.pairs[i].value)
                \/ UnhashableValue(v.pairs[i].key)
    \/ v.kind \in {"Struct", "StructVariant"}
          /\ \E i \in 1..Len(v.fields) : Poisoned(v.fields[i].value)

\* C7: when the conversion of a child anywhere in the tree, or a set_item,
\* fails, pythonize_custom returns an error and no object (and it returns an
\* object otherwise); an element/key/value/field call whose child fails to
\* convert, or a serialize_value whose pending key the mapping does not
\* take, returns the error (unless it panicked for want of a key), it is
\* the last call made on the serializer, and end never hands back what was
\* built.
C7_FirstErrorAbortsConversion ==
    /\ Pythonized =>
          /\ Poisoned(Root) => ret.tag = "Err"
          /\ ~Poisoned(Root) => ret.tag = "Obj"
    /\ ser # <<>> =>
          \A i \in 1..Len(calls) :
             /\ (Poisoned(calls[i].arg) /\ calls[i].tag # "Panic") =>
                   calls[i].tag = "Err"
             /\ (/\ calls[i].op = "value"
                 /\ i > 1
                 /\ calls[i - 1].op = "key"
                 /\ UnhashableValue(calls[i - 1].arg)) =>
                   calls[i].tag = "Err"
             /\ calls[i].tag = "Err" => (i = Len(calls) /\ ret.tag = "Err")

\* A sequence holding a sequence whose element fails to convert has been
\* handed to pythonize_custom, which returned the error.
C7_Witness ==
    /\ Pythonized
    /\ Root.kind = "Seq"
    /\ Len(Root.elems) = 1
    /\ Root.elems[1].kind = "Seq"
    /\ Len(Root.elems[1].elems) = 2
    /\ Root.elems[1].elems[2].kind = "Failing"
    /\ ret.tag = "Err"

\* The entries of a mapping written with names[i] -> vals[i] for i = 1, 2, ..
\* in this order: its keys are the names as strings, once each and in the
\* order of their first writes, each with the value of the last write under
\* that name.
FieldsInFirstCallOrder(entries, names, vals) ==
    LET n == Len(names)
        firsts == {i \in 1..n : \A j \in 1..(i - 1) : names[j] # names[i]}
        rank(i) == Cardinality({j \in firsts : j <= i})
        last(i) == CHOOSE l \in i..n :
                      /\ names[l] = names[i]
                      /\ \A l2 \in (l + 1)..n : names[l2] # names[i]
    IN /\ Len(entries) = Cardinality(firsts)
       /\ \A i \in firsts :
             entries[rank(i)] =
                [key |-> PyStr(names[i]), val |-> vals[last(i)]]

\* The names and the converted values of the serialize_field calls made.
CallNames == [i \in 1..Len(calls) |-> calls[i].name]
CallVals == [i \in 1..Len(calls) |-> Converted(ser[1].P, calls[i].arg)]

\* C8: end on a struct serializer returns, and end on the struct-variant
\* wrapper wraps, a mapping whose keys are exactly the field names passed,
\* as strings, in first-call order, each with the converted value of the
\* last call made with that name; so does the conversion of a whole struct
\* or struct variant value.
C8_StructFieldsInCallOrder ==
    /\ (Ended /\ ser[1].kind = "Dict") =>
          /\ ret.obj.k = "Mapping"
          /\ FieldsInFirstCallOrder(ret.obj.entries, CallNames, CallVals)
    /\ (Ended /\ ser[1].kind = "StructVariant") =>
          /\ Len(ret.obj.entries) = 1
          /\ ret.obj.entries[1].val.k = "Mapping"
          /\ FieldsInFirstCallOrder(ret.obj.entries[1].val.entries,
                                    CallNames, CallVals)
    /\ (Pythonized /\ Root.kind \in {"Struct", "StructVariant"}
           /\ ret.tag = "Obj") =>
          FieldsInFirstCallOrder(
             IF Root.kind = "Struct" THEN ret.obj.entries
             ELSE ret.obj.entries[1].val.entries,
             [i \in 1..Len(Root.fields) |-> Root.fields[i].name],
             [i \in 1..Len(Root.fields) |->
                 Converted(RootP, Root.fields[i].value)])

\* A struct serializer has ended after the fields f, g, f, the two values
\* of f different: two entries, f first.
C8_Witness ==
    /\ Ended
    /\ ser[1].kind = "Dict"
    /\ Len(calls) = 3
    /\ calls[1].name = "f"
    /\ calls[2].name = "g"
    /\ calls[3].name = "f"
    /\ calls[1].arg # calls[3].arg
    /\ Len(ret.obj.entries) = 2

\* The object end builds from the elements collected: the object itself,
\* or the one the tuple-variant wrapper wraps.
EndedCollection ==
    IF ser[1].kind = "TupleVariant" THEN ret.obj.entries[1].val ELSE ret.obj

\* C9 as stated: end on a tuple, tuple struct or tuple variant serializer
\* builds, from the elements in call order, the list the binding's List
\* constructor builds: what a sequence of the same elements gives.
C9_TupleEndsAsList ==
    (Ended /\ ser[1].via \in {"Tuple", "TupleStruct", "TupleVariant"}) =>
        EndedCollection = ListNew(ser[1].P, CallVals)

\* C9 amended: end on a tuple, tuple struct or tuple variant serializer
\* builds a Python tuple (PyTuple::new, whatever the binding) holding the
\* converted elements in call order: the items of the list a sequence of
\* the same elements gives, in an object of another kind.
C9_TupleEndsAsTuple ==
    /\ (Ended /\ ser[1].via \in {"Tuple", "TupleStruct", "TupleVariant"}) =>
          EndedCollection = PyTupleNew(CallVals)
    /\ (Pythonized /\ ret.tag = "Obj"
           /\ Root.kind \in {"Tuple", "TupleStruct", "TupleVariant"}) =>
          LET seq == Converted(RootP, VElems("Seq", Root.elems))
              tuple == IF Root.kind = "TupleVariant"
                       THEN ret.obj.entries[1].val ELSE ret.obj
          IN /\ seq.k = "List"
             /\ tuple = PyTupleNew(seq.items)

\* A tuple struct serializer of the caller's binding has ended after two
\* different elements.
C9_Witness ==
    /\ Ended
    /\ ser[1].via = "TupleStruct"
    /\ ser[1].P = "Custom"
    /\ Len(calls) = 2
    /\ calls[1].arg # calls[2].arg

\* Every mapping in the tree of o is of class ty.
RECURSIVE MappingsAre(_, _)
MappingsAre(o, ty) ==
    CASE o.k = "Mapping" ->
            /\ o.ty = ty
            /\ \A i \in 1..Len(o.entries) :
                  /\ MappingsAre(o.entries[i].key, ty)
                  /\ MappingsAre(o.entries[i].val, ty)
      [] o.k \in {"List", "Tuple"} ->
            \A i \in 1..Len(o.items) : MappingsAre(o.items[i], ty)
      [] OTHER -> TRUE

\* C10: every mapping in the object pythonize_custom::<P, _> returns, and in
\* the object end returns, the one-entry mappings of the variants included,
\* is of the class of P's Map binding.
C10_MappingsAreOfTheBinding ==
    /\ (Pythonized /\ ret.tag = "Obj") =>
          MappingsAre(ret.obj, MapType(RootP))
    /\ Ended => MappingsAre(ret.obj, MapType(ser[1].P))

\* v without its Some and NewtypeStruct layers, at every depth.
RECURSIVE Unwrapped(_)
Unwrapped(v) ==
    CASE v.kind \in {"Some", "NewtypeStruct"} -> Unwrapped(v.value)
      [] v.kind = "NewtypeVariant" -> [v EXCEPT !.value = Unwrapped(@)]
      [] v.kind \in {"Seq", "Tuple", "TupleStruct", "TupleVariant"} ->
            [v EXCEPT !.elems = [i \in 1..Len(@) |-> Unwrapped(@[i])]]
      [] v.kind = "Map" ->
            [v EXCEPT !.pairs =
                [i \in 1..Len(@) |-> [key |-> Unwrapped(@[i].key),
                                      value |-> Unwrapped(@[i].value)]]]
      [] v.kind \in {"Struct", "StructVariant"} ->
            [v EXCEPT !.fields =
                [i \in 1..Len(@) |-> [name |-> @[i].name,
                                      value |-> Unwrapped(@[i].value)]]]
      [] OTHER -> v

\* C11: the conversion of Some(v) or NewtypeStruct(v) returns what the
\* conversion of v returns, the same object or the same error, with nothing
\* wrapped around it; and at any depth: a value converts to what the value
\* without its Some and NewtypeStruct layers converts to.
C11_SomeAndNewtypeStructPassThrough ==
    Pythonized =>
        /\ Root.kind \in {"Some", "NewtypeStruct"} =>
              ret = RetOf(pythonize_custom(RootP, Root.value))
        /\ ret = RetOf(pythonize_custom(RootP, Unwrapped(Root)))

\* Some(NewtypeStruct(1)) has converted, to the integer 1.
C11_Witness ==
    /\ Pythonized
    /\ Root.kind = "Some"
    /\ Root.value.kind = "NewtypeStruct"
    /\ ret = [tag |-> "Obj", obj |-> PyInt(1)]

\* A step that is a call of op on a map serializer.
MapCall(op) ==
    /\ ser # <<>>
    /\ ser[1].kind = "Map"
    /\ Len(calls') = Len(calls) + 1
    /\ calls'[Len(calls')].op = op

\* new is old with key set to val and nothing else changed: the entries
\* under other keys are the same, at the same places; key has exactly one
\* entry, holding val, which is a new last entry when old had none.
SetOnly(old, new, key, val) ==
    /\ Len(new) = IF \E i \in 1..Len(old) : KeyEq(old[i].key, key)
                  THEN Len(old) ELSE Len(old) + 1
    /\ \A i \in 1..Len(old) : ~KeyEq(old[i].key, key) => new[i] = old[i]
    /\ \E i \in 1..Len(new) :
          /\ KeyEq(new[i].key, key)
          /\ new[i].val = val
          /\ \A i2 \in 1..Len(new) : KeyEq(new[i2].key, key) => i2 = i

\* The serialize_value calls that succeeded, in call order.
ValueCalls ==
    SelectSeq([i \in 1..Len(calls) |-> i],
              LAMBDA i : calls[i].op = "value" /\ calls[i].tag = "Ok")

\* The keys they consumed and the values they wrote, converted.
WrittenKeys == [j \in 1..Len(ValueCalls) |-> PendingKey(ValueCalls[j] - 1)[1]]
WrittenVals ==
    [j \in 1..Len(ValueCalls) |-> Converted(ser[1].P, calls[ValueCalls[j]].arg)]

\* C12: serialize_map makes the map serializer with one fresh empty mapping
\* and an empty pending-key slot. Every call on the serializer leaves it
\* with that same mapping object. A serialize_value that succeeds had a
\* pending key, leaves the slot empty, and sets that key to the converted
\* value in the mapping, every other entry unchanged; any other call leaves
\* the entries as they are. end returns that same mapping object, not a
\* copy, and its entries are exactly the ones the successful
\* serialize_value calls wrote.
C12_MapWrittenInPlace ==
    [][/\ (ser = <<>> /\ ser' # <<>> /\ ser'[1].kind = "Map") =>
             /\ ser'[1].dict = MapNew(ser'[1].P)
             /\ ser'[1].dict.entries = <<>>
             /\ ser'[1].key = NoKey
       /\ (ser # <<>> /\ ser[1].kind = "Map") =>
             /\ ser'[1].dict.alloc = ser[1].dict.alloc
             /\ ser'[1].dict.ty = ser[1].dict.ty
             /\ IF MapCall("value") /\ ret'.tag = "Unit"
                THEN /\ ser[1].key # NoKey
                     /\ ser'[1].key = NoKey
                     /\ SetOnly(ser[1].dict.entries, ser'[1].dict.entries,
                                ser[1].key[1],
                                Converted(ser[1].P, calls'[Len(calls')].arg))
                ELSE ser'[1].dict = ser[1].dict
             /\ ret'.tag = "Obj" =>
                   /\ ret'.obj = ser[1].dict
                   /\ LastWriteWins(ret'.obj.entries, WrittenKeys,
                                    WrittenVals)]_vars

\* A map serializer has ended after 1 -> v and "a" -> w: the object
\* returned is the serializer's mapping, with these two entries.
C12_Witness ==
    /\ Ended
    /\ ser[1].kind = "Map"
    /\ Alternating
    /\ Len(calls) = 4
    /\ calls[1].arg = VInt(1)
    /\ calls[3].arg = VStr("a")
    /\ ret.obj = ser[1].dict
    /\ ret.obj.alloc = "new"
    /\ Len(ret.obj.entries) = 2

\* The call being made is of op on a map serializer and its argument does
\* not convert.
FailingMapCall(op) ==
    /\ MapCall(op)
    /\ ~pythonize_custom(ser[1].P, calls'[Len(calls')].arg).ok

\* The error the conversion of the call's argument returns, as the call's
\* return.
ArgError ==
    [tag |-> "Err",
     err |-> pythonize_custom(ser[1].P, calls'[Len(calls')].arg).err]

\* C13: a serialize_value called with a pending key whose value does not
\* convert returns the conversion's error, leaves the mapping as it was
\* (the pending key is not inserted) and leaves the pending-key slot
\* empty; a serialize_key whose key does not convert returns the
\* conversion's error and leaves the mapping and the pending-key slot as
\* they were.
C13_FailedCallsOnMap ==
    [][/\ (FailingMapCall("value") /\ ser[1].key # NoKey) =>
             /\ ret' = ArgError
             /\ ser'[1].dict = ser[1].dict
             /\ ser'[1].key = NoKey
       /\ FailingMapCall("key") =>
             /\ ret' = ArgError
             /\ ser'[1].dict = ser[1].dict
             /\ ser'[1].key = ser[1].key]_vars

\* After 1 -> v was written and the key "a" accepted, a serialize_value
\* has failed: the mapping holds the one entry, the slot is empty.
C13_Witness ==
    /\ ser # <<>>
    /\ ser[1].kind = "Map"
    /\ Len(calls) = 4
    /\ calls[3] = [op |-> "key", name |-> "", arg |-> VStr("a"), tag |-> "Ok"]
    /\ calls[4].op = "value"
    /\ calls[4].arg = VFailing
    /\ ret = [tag |-> "Err", err |-> "Custom"]
    /\ Len(ser[1].dict.entries) = 1
    /\ ser[1].key = NoKey

\* With the key 1 pending, a serialize_key has failed: the slot still
\* holds 1.
C13_WitnessKey ==
    /\ ser # <<>>
    /\ ser[1].kind = "Map"
    /\ Len(calls) = 2
    /\ calls[1] = [op |-> "key", name |-> "", arg |-> VInt(1), tag |-> "Ok"]
    /\ calls[2].op = "key"
    /\ calls[2].tag = "Err"
    /\ ret.tag = "Err"
    /\ ser[1].key = <<PyInt(1)>>

=============================================================================
